---- MODULE Spec2Model ----
(***************************************************************************)
(* MarkdownIME: the hybrid text model (DomChaos, src/src/VDom.ts) and the  *)
(* block elevation engine (BlockRenderer, src/src/Renderer/                *)
(* BlockRenderer.ts).                                                      *)
(*                                                                         *)
(* Strings are sequences of characters; a character is a one-element       *)
(* string, except the four characters written by their code point          *)
(* ("FFFC", "FFF9", "FFFB", "00A0").                                       *)
(***************************************************************************)
EXTENDS Integers, Sequences, FiniteSets

VARIABLES
    \* ---- BlockRenderer: the document and the last call
    doc,            \* the children of the editor element, in order
    rtn,            \* what the last call returned: the descriptor, the position
                    \* of the parent (0 for null), the id of the child (0 for null)
    \* ---- DomChaos: the fields of one instance and the last call
    text,           \* DomChaos.text
    proxyStorage,   \* DomChaos.proxyStorage, in insertion order
    markCount,      \* DomChaos.markCount
    src,            \* the argument of the last setHTML
    pristine,       \* no replace() since the last setHTML
    lastCall,       \* the last DomChaos call: its argument, result, marks
    \* ---- DomChaos.applyTo: the locals of one run
    target,         \* target.childNodes
    shadow,         \* shadow.childNodes
    ti,             \* the loop index ti (0-based, as in the source)
    si,             \* the scan position si (0-based)
    pc,             \* where applyTo stands: idle, scan, flush, done
    live0,          \* target.childNodes when applyTo was called
    scratch0,       \* shadow.childNodes right after shadow.innerHTML = ...
    scanLog         \* per outer iteration: the live child and si at its visit

evars == <<doc, rtn>>
cvars == <<text, proxyStorage, markCount, src, pristine, lastCall>>
avars == <<target, shadow, ti, si, pc, live0, scratch0, scanLog>>
vars == <<doc, rtn, text, proxyStorage, markCount, src, pristine, lastCall,
          target, shadow, ti, si, pc, live0, scratch0, scanLog>>

InitApply ==
    /\ target = <<>>
    /\ shadow = <<>>
    /\ ti = 0
    /\ si = 0
    /\ pc = "idle"
    /\ live0 = <<>>
    /\ scratch0 = <<>>
    /\ scanLog = <<>>

InitElevate ==
    /\ doc = <<>>
    /\ rtn = [fn |-> "none", containerType |-> "null", parent |-> 0, child |-> 0]

InitChaos ==
    /\ text = <<>>
    /\ proxyStorage = <<>>
    /\ markCount = 0
    /\ src = <<>>
    /\ pristine = TRUE
    /\ lastCall = [fn |-> "none", arg |-> <<>>, ret |-> <<>>, marks |-> <<>>]

Init == InitApply /\ InitElevate /\ InitChaos

Range(s) == {s[k] : k \in 1..Len(s)}

\* All sequences over S of length 0..n.
SeqsUpTo(S, n) == UNION {[1..k -> S] : k \in 0..n}

(***************************************************************************)
(* Characters and the character classes of the regular expressions         *)
(***************************************************************************)

NBSP == "00A0"                      \* String.fromCharCode(160)

\* \s, \d and \w, over the characters of the model.
Space == {" ", NBSP}
Digit == {"0", "1", "2", "3", "4", "5", "6", "7", "8", "9"}
Letter == {"a", "b", "c", "d", "e", "f", "g", "h", "i", "j", "k", "l", "m",
           "n", "o", "p", "q", "r", "s", "t", "u", "v", "w", "x", "y", "z"}
Word == Digit \cup Letter \cup {"_"}
isSpace(c) == c \in Space

\* The string s from its i-th character on (1-based).
From(s, i) == SubSeq(s, i, Len(s))

\* s has t at position i (1-based).
StartsAt(s, i, t) ==
    /\ i >= 1
    /\ i + Len(t) - 1 <= Len(s)
    /\ SubSeq(s, i, i + Len(t) - 1) = t

\* The first position >= i whose character is not in class C; Len(s) + 1 if none.
RECURSIVE SkipWhile(_, _, _)
SkipWhile(s, i, C) ==
    IF i <= Len(s) /\ s[i] \in C THEN SkipWhile(s, i + 1, C) ELSE i

\* The first position >= i where t occurs in s; 0 if none (indexOf).
RECURSIVE IndexOfFrom(_, _, _)
IndexOfFrom(s, t, i) ==
    IF i + Len(t) - 1 > Len(s) THEN 0
    ELSE IF StartsAt(s, i, t) THEN i
    ELSE IndexOfFrom(s, t, i + 1)

\* s.replace(/t/g, r) for a literal t that is not empty.
RECURSIVE ReplaceAllLiteral(_, _, _)
ReplaceAllLiteral(s, t, r) ==
    LET k == IndexOfFrom(s, t, 1)
    IN  IF k = 0 THEN s
        ELSE SubSeq(s, 1, k - 1) \o r \o ReplaceAllLiteral(From(s, k + Len(t)), t, r)

(***************************************************************************)
(* PART A.  BlockRenderer                                                  *)
(***************************************************************************)

\* ---- The DOM, as far as the renderer uses it.

EntNbsp == <<"&", "n", "b", "s", "p", ";">>
EntGt == <<"&", "g", "t", ";">>
EntLt == <<"&", "l", "t", ";">>
EntAmp == <<"&", "a", "m", "p", ";">>

\* node.textContent of an element whose innerHTML is h: tags dropped,
\* character references decoded.
RECURSIVE textContent(_)
textContent(h) ==
    IF h = <<>> THEN <<>>
    ELSE IF h[1] = "<" /\ IndexOfFrom(h, <<">">>, 1) > 0 THEN
        textContent(From(h, IndexOfFrom(h, <<">">>, 1) + 1))
    ELSE IF h[1] # "&" THEN <<h[1]>> \o textContent(Tail(h))
    ELSE IF StartsAt(h, 1, EntNbsp) THEN <<NBSP>> \o textContent(From(h, 7))
    ELSE IF StartsAt(h, 1, EntGt) THEN <<">">> \o textContent(From(h, 5))
    ELSE IF StartsAt(h, 1, EntLt) THEN <<"<">> \o textContent(From(h, 5))
    ELSE IF StartsAt(h, 1, EntAmp) THEN <<"&">> \o textContent(From(h, 6))
    ELSE <<h[1]>> \o textContent(Tail(h))

\* What n.innerHTML reads after n.innerHTML = h: the serializer writes the
\* no-break space as &nbsp;.
innerHTML(h) == ReplaceAllLiteral(h, <<NBSP>>, EntNbsp)

\* ---- The feature marks.  Each gives the length of the match at the start of
\* s, -1 when there is none.

\* /^\s*[\*\+\-]\s+/
MatchUL(s) ==
    LET i == SkipWhile(s, 1, Space)
    IN  IF i + 1 <= Len(s) /\ s[i] \in {"*", "+", "-"} /\ isSpace(s[i + 1])
        THEN SkipWhile(s, i + 1, Space) - 1
        ELSE -1

\* /^\s*\d+\.\s+/
MatchOL(s) ==
    LET i == SkipWhile(s, 1, Space)
        j == SkipWhile(s, i, Digit)
    IN  IF j > i /\ j + 1 <= Len(s) /\ s[j] = "." /\ isSpace(s[j + 1])
        THEN SkipWhile(s, j + 1, Space) - 1
        ELSE -1

\* /^(\>|&gt;)\s*/
MatchBLOCKQUOTE(s) ==
    IF StartsAt(s, 1, <<">">>) THEN SkipWhile(s, 2, Space) - 1
    ELSE IF StartsAt(s, 1, EntGt) THEN SkipWhile(s, 5, Space) - 1
    ELSE -1

\* /^\s*([\-\=\*])(\s*\1){2,}\s*$/
MatchHR(s) ==
    LET i == SkipWhile(s, 1, Space)
    IN  IF /\ i <= Len(s)
           /\ s[i] \in {"-", "=", "*"}
           /\ \A k \in (i + 1)..Len(s) : isSpace(s[k]) \/ s[k] = s[i]
           /\ Cardinality({k \in (i + 1)..Len(s) : s[k] = s[i]}) >= 2
        THEN Len(s)
        ELSE -1

\* match[1].length of /^(#+)\s+/, 0 when there is no match.
HashRun(s) ==
    LET j == SkipWhile(s, 1, {"#"})
    IN  IF j > 1 /\ j <= Len(s) /\ isSpace(s[j]) THEN j - 1 ELSE 0

\* /^(#+)\s+/
MatchHeaderText(s) ==
    IF HashRun(s) > 0 THEN SkipWhile(s, HashRun(s) + 1, Space) - 1 ELSE -1

\* ---- The descriptors (BlockRendererContainers), by name.

\* markdownContainers with the two list descriptors listed first.
markdownContainersListsFirst == <<"unordered list", "ordered list", "blockquote", "header text", "hr">>

\* BlockRenderer.markdownContainers, in order.
markdownContainers == <<"blockquote", "header text", "hr", "ordered list", "unordered list">>

\* featureMark.exec(s): the length of match[0], -1 for null.
featureMark(d, s) ==
    CASE d = "unordered list" -> MatchUL(s)
      [] d = "ordered list" -> MatchOL(s)
      [] d = "blockquote" -> MatchBLOCKQUOTE(s)
      [] d = "hr" -> MatchHR(s)
      [] d = "header text" -> MatchHeaderText(s)

childNodeName(d) ==
    IF d \in {"unordered list", "ordered list"} THEN "LI" ELSE "null"

parentNodeName(d) ==
    CASE d = "unordered list" -> "UL"
      [] d = "ordered list" -> "OL"
      [] d = "blockquote" -> "BLOCKQUOTE"
      [] OTHER -> "null"

\* The descriptors with a parentNodeName.
WrappingContainers == {"unordered list", "ordered list", "blockquote"}

\* No descriptor of the five clears the default.
removeFeatureMark(d) == TRUE

\* h without its first n characters, the match of a pattern anchored at the
\* start; h itself when there is no match (n = -1).
DropMatch(h, n) == IF n >= 0 THEN From(h, n + 1) ELSE h

\* h.replace(featureMark, ''): the mark is a pattern anchored at the start,
\* without the g flag.
StripMark(d, h) == DropMatch(h, featureMark(d, h))

\* ---- Nodes.  A block carries its markup (html); a wrapper carries its
\* children (kids).  A header's nodeName is "H" followed by its level.

Block(id, tag, level, html) ==
    [id |-> id, tag |-> tag, level |-> level, html |-> html, kids |-> <<>>]

Wrapper(tag, kids) ==
    [id |-> 0, tag |-> tag, level |-> 0, html |-> <<>>, kids |-> kids]

NullNode == Block(0, "null", 0, <<>>)

WrapperTags == {"UL", "OL", "BLOCKQUOTE"}

RemoveAt(s, k) == SubSeq(s, 1, k - 1) \o SubSeq(s, k + 1, Len(s))

\* prepareElevate after the match m on the text t.
prepareStrip(d, node, t, m) ==
    [match |-> m,
     hashes |-> HashRun(t),
     html |-> IF m >= 0 /\ removeFeatureMark(d)
              THEN innerHTML(StripMark(d, ReplaceAllLiteral(node.html, EntNbsp, <<NBSP>>)))
              ELSE node.html]

\* prepareElevate once node.textContent is read as t.
prepareMatch(d, node, t) == prepareStrip(d, node, t, featureMark(d, t))

\* prepareElevate: the match (its length, -1 for null), match[1].length for the
\* header pattern, and the node's innerHTML afterwards.
prepareElevate(d, node) == prepareMatch(d, node, textContent(node.html))

\* The result of an Elevate that returned null on document D.
Failed(D) == [ok |-> FALSE, doc |-> D, parent |-> 0, child |-> NullNode]

\* MergeTest with the test of the preceding sibling's nodeName left out.
MergeAlways(D, i, tag) == i > 1

\* child.previousElementSibling && child.previousElementSibling.nodeName ==
\* this.parentNodeName, for the child at position i of D.
MergeTest(D, i, tag) == i > 1 /\ D[i - 1].tag = tag

\* The i-th node of D is replaced by child, which has no parent descriptor.
ReplaceNode(D, i, child) ==
    [ok |-> TRUE, doc |-> [D EXCEPT ![i] = child], parent |-> 0, child |-> child]

\* The child of Elevate: the node itself, or a new element of childNodeName
\* that takes over the node's content.
ElevateChild(d, node, html) ==
    IF childNodeName(d) = "null"
    THEN [node EXCEPT !.html = html]
    ELSE Block(node.id, childNodeName(d), 0, html)

\* The parent part of Elevate, child standing where the node stood: none,
\* the preceding sibling, or a new parent wrapped around the child.
ElevateParent(d, D, i, child) ==
    IF parentNodeName(d) = "null" THEN ReplaceNode(D, i, child)
    ELSE IF MergeTest(D, i, parentNodeName(d)) THEN
        [ok |-> TRUE,
         doc |-> RemoveAt([D EXCEPT ![i - 1].kids = Append(@, child)], i),
         parent |-> i - 1, child |-> child]
    ELSE
        \* Utils.wrap(parent, child)
        [ok |-> TRUE,
         doc |-> [D EXCEPT ![i] = Wrapper(parentNodeName(d), <<child>>)],
         parent |-> i, child |-> child]

\* Elevate after prepareElevate has returned pe.
ElevatePrepared(d, D, i, pe) ==
    IF pe.match < 0 THEN Failed(D)
    ELSE ElevateParent(d, D, i, ElevateChild(d, D[i], pe.html))

\* BlockRendererContainer.Elevate on the i-th node of D.  parent is the
\* position of the returned parent in the new document, 0 for null.
GenericElevate(d, D, i) == ElevatePrepared(d, D, i, prepareElevate(d, D[i]))

\* HRElevate without if (!this.prepareElevate(node)) return null.
HRElevateUnchecked(d, D, i) == ReplaceNode(D, i, Block(D[i].id, "HR", 0, <<>>))

\* BlockRendererContainers.HR.Elevate
HRElevate(d, D, i) ==
    IF prepareElevate(d, D[i]).match < 0 THEN Failed(D)
    ELSE ReplaceNode(D, i, Block(D[i].id, "HR", 0, <<>>))

\* The number in "H" + match[1].length.
HeaderLevel(n) == n

\* HeaderText.Elevate after prepareElevate has returned pe.
HeaderTextPrepared(D, i, pe) ==
    IF pe.match < 0 THEN Failed(D)
    ELSE ReplaceNode(D, i, Block(D[i].id, "H", HeaderLevel(pe.hashes), pe.html))

\* BlockRendererContainers.HeaderText.Elevate
HeaderTextElevate(d, D, i) == HeaderTextPrepared(D, i, prepareElevate(d, D[i]))

\* container.Elevate(node): the method of the descriptor's class.
ContainerElevate(d, D, i) ==
    CASE d = "hr" -> HRElevate(d, D, i)
      [] d = "header text" -> HeaderTextElevate(d, D, i)
      [] OTHER -> GenericElevate(d, D, i)

\* rtn.containerType = container
WithType(r, container) ==
    [ok |-> r.ok, doc |-> r.doc, parent |-> r.parent, child |-> r.child,
     containerType |-> container]

\* The loop of BlockRenderer.Elevate, from the k-th container on.
RECURSIVE ElevateLoop(_, _, _, _)

\* One iteration, rtn = container.Elevate(node) being r.
ElevateBreak(containers, k, D, i, r) ==
    IF r.ok THEN WithType(r, containers[k])
    ELSE ElevateLoop(containers, k + 1, D, i)

ElevateLoop(containers, k, D, i) ==
    IF k > Len(containers) THEN WithType(Failed(D), "null")
    ELSE ElevateBreak(containers, k, D, i, ContainerElevate(containers[k], D, i))

\* BlockRenderer.Elevate on the i-th node of D, with the renderer of
\* makeMarkdownRenderer.
BlockRendererElevate(D, i) == ElevateLoop(markdownContainers, 1, D, i)

\* ---- The blocks a user types.

MaxBlocks == 2          \* blocks typed into the document
MaxHashes == 7          \* the longest run of # typed

RECURSIVE Hashes(_)
Hashes(n) == IF n = 0 THEN <<>> ELSE <<"#">> \o Hashes(n - 1)

TagB(h) == <<"<", "b", ">">> \o h \o <<"<", "/", "b", ">">>

\* The hash runs typed: the shortest and the longest.
HashRuns == {1, MaxHashes}

\* innerHTML of the blocks a user types: without a marker; with a list, quote,
\* rule or header marker, followed by a space, a no-break space or nothing;
\* with the marker inside a tag; with a tag after the marker.
Contents ==
    {<<"a">> , <<"-", "a">>,
     <<"-", " ">> \o TagB(<<"a">>),
     <<"-">> \o EntNbsp \o <<"a">>,
     TagB(<<"-">>) \o <<" ", "a">>,
     <<"1", ".", " ", "a">>,
     EntGt \o <<" ", "a">>,
     <<"-", " ", "-", " ", "-">>}
    \cup {Hashes(n) \o <<" ", "a">> : n \in HashRuns}

RECURSIVE LeafCount(_)
LeafCount(D) ==
    IF D = <<>> THEN 0
    ELSE (IF D[1].tag \in WrapperTags THEN Len(D[1].kids) ELSE 1) + LeafCount(Tail(D))

\* The user types a block at the end of the document.
AddBlock(h) ==
    /\ LeafCount(doc) < MaxBlocks
    /\ doc' = Append(doc, Block(LeafCount(doc) + 1, "P", 0, h))
    /\ rtn' = [fn |-> "AddBlock", containerType |-> "null", parent |-> 0, child |-> 0]
    /\ UNCHANGED <<cvars, avars>>

\* renderer.Elevate(node) on a block of the document.
Elevate(i) ==
    /\ doc[i].tag \notin WrapperTags
    /\ \E r \in {BlockRendererElevate(doc, i)} :
           /\ doc' = r.doc
           /\ rtn' = [fn |-> "Elevate", containerType |-> r.containerType,
                      parent |-> r.parent, child |-> r.child.id]
    /\ UNCHANGED <<cvars, avars>>

\* descriptor.Elevate(node), called on one descriptor directly.
ElevateWith(d, i) ==
    /\ doc[i].tag \notin WrapperTags
    /\ \E r \in {ContainerElevate(d, doc, i)} :
           /\ doc' = r.doc
           /\ rtn' = [fn |-> "ContainerElevate",
                      containerType |-> IF r.ok THEN d ELSE "null",
                      parent |-> r.parent, child |-> r.child.id]
    /\ UNCHANGED <<cvars, avars>>

NextElevate ==
    \/ \E h \in Contents : AddBlock(h)
    \/ \E i \in 1..Len(doc) : Elevate(i)
    \/ \E i \in 1..Len(doc), d \in WrappingContainers : ElevateWith(d, i)

SpecElevate == Init /\ [][NextElevate]_vars

(***************************************************************************)
(* PART B.  DomChaos                                                       *)
(***************************************************************************)

markPrefix == <<"FFFC", "FFF9">>
markSuffix == <<"FFFB">>

Digits36 == <<"0", "1", "2", "3", "4", "5", "6", "7", "8", "9",
              "a", "b", "c", "d", "e", "f", "g", "h", "i", "j", "k", "l", "m",
              "n", "o", "p", "q", "r", "s", "t", "u", "v", "w", "x", "y", "z">>

\* n.toString(36)
RECURSIVE toString36(_)
toString36(n) ==
    IF n < Len(Digits36) THEN <<Digits36[n + 1]>>
    ELSE toString36(n \div Len(Digits36)) \o <<Digits36[(n % Len(Digits36)) + 1]>>

MarkOf(n) == markPrefix \o toString36(n) \o markSuffix

\* nextMark without the test against this.text.
nextMarkUnchecked(txt, count) == [mark |-> MarkOf(count + 1), markCount |-> count + 1]

\* The do-while loop of nextMark, from markCount = count.
RECURSIVE nextMarkLoop(_, _)
nextMarkLoop(txt, count) ==
    IF IndexOfFrom(txt, MarkOf(count + 1), 1) # 0
    THEN nextMarkLoop(txt, count + 1)
    ELSE [mark |-> MarkOf(count + 1), markCount |-> count + 1]

\* nextMark: the mark and the new markCount.
nextMark(txt, count) == nextMarkLoop(txt, count)

\* proxyStorage is the sequence of its entries in insertion order.
Keys(storage) == {storage[k].mark : k \in 1..Len(storage)}

\* this.proxyStorage[mark] = reality
Put(storage, mark, reality) ==
    IF mark \in Keys(storage)
    THEN [k \in 1..Len(storage) |->
            IF storage[k].mark = mark THEN [mark |-> mark, reality |-> reality]
            ELSE storage[k]]
    ELSE Append(storage, [mark |-> mark, reality |-> reality])

\* A DomChaos while a call runs: its fields, and the marks the call has made.
\* this.text stays as it was until the call assigns it.
Chaos(txt, storage, count, marks) ==
    [text |-> txt, proxyStorage |-> storage, markCount |-> count, marks |-> marks]

\* createProxy: the instance afterwards; the mark returned is the last of marks.
createProxy(c, reality) ==
    LET m == nextMark(c.text, c.markCount)
    IN  Chaos(c.text, Put(c.proxyStorage, m.mark, reality), m.markCount,
              Append(c.marks, m.mark))

\* The length of the match of /<!--.+?-->/ at position i of s, 0 for none.
MatchComment(s, i) ==
    LET j == IndexOfFrom(s, <<"-", "-", ">">>, i + 5)
    IN  IF StartsAt(s, i, <<"<", "!", "-", "-">>) /\ j > 0 THEN j + 3 - i ELSE 0

\* The length of the match of /<\/?\w+(\s+[^>]+)?>/ at position i of s.
MatchTag(s, i) ==
    IF s[i] # "<" THEN 0
    ELSE
    LET p0 == IF StartsAt(s, i + 1, <<"/">>) THEN i + 2 ELSE i + 1
        p == SkipWhile(s, p0, Word)
        q == IndexOfFrom(s, <<">">>, p + 1)
    IN  IF p = p0 \/ p > Len(s) THEN 0
        ELSE IF s[p] = ">" THEN p - i + 1
        ELSE IF isSpace(s[p]) /\ q > 0 /\ q - p >= 2 THEN q - i + 1
        ELSE 0

\* The length of the match of /\\./ at position i of s.
MatchEscape(s, i) == IF s[i] = "\\" /\ i < Len(s) THEN 2 ELSE 0

MatchAt(kind, s, i) ==
    CASE kind = "comment" -> MatchComment(s, i)
      [] kind = "tag" -> MatchTag(s, i)
      [] kind = "escape" -> MatchEscape(s, i)

\* html.replace(regex, repFun) from position i on, for a regex with the g
\* flag; acc is the result so far.
RECURSIVE ReplaceFrom(_, _, _, _, _)

\* The match of length n at position i goes through repFun: c2 is the
\* instance after createProxy, whose mark takes the place of the match.
ReplaceMatch(kind, s, i, n, c2, acc) ==
    ReplaceFrom(kind, s, i + n, c2, acc \o c2.marks[Len(c2.marks)])

\* One position of the scan, n being the length of the match there.
ReplaceAt(kind, s, i, c, acc, n) ==
    IF n > 0
    THEN ReplaceMatch(kind, s, i, n, createProxy(c, SubSeq(s, i, i + n - 1)), acc)
    ELSE ReplaceFrom(kind, s, i + 1, c, Append(acc, s[i]))

ReplaceFrom(kind, s, i, c, acc) ==
    IF i > Len(s) THEN [html |-> acc, chaos |-> c]
    ELSE ReplaceAt(kind, s, i, c, acc, MatchAt(kind, s, i))

\* ReplaceProxies for a regex without the g flag.
ReplaceFirstOnly(kind, r) ==
    LET s == r.html
        ks == {k \in 1..Len(s) : MatchAt(kind, s, k) > 0}
        i == CHOOSE k \in ks : \A j \in ks : k <= j
        c2 == createProxy(r.chaos, SubSeq(s, i, i + MatchAt(kind, s, i) - 1))
    IN  IF ks = {} THEN r
        ELSE [html |-> SubSeq(s, 1, i - 1) \o c2.marks[Len(c2.marks)]
                        \o From(s, i + MatchAt(kind, s, i)),
              chaos |-> c2]

\* html = html.replace(regex, repFun): one line of digestHTML, on the html
\* and the instance of r.
ReplaceProxies(kind, r) == ReplaceFrom(kind, r.html, 1, r.chaos, <<>>)

\* Utils.html_entity_decode
RECURSIVE html_entity_decode(_)
html_entity_decode(h) ==
    IF h = <<>> THEN <<>>
    ELSE IF h[1] # "&" THEN <<h[1]>> \o html_entity_decode(Tail(h))
    ELSE IF StartsAt(h, 1, EntNbsp) THEN <<NBSP>> \o html_entity_decode(From(h, 7))
    ELSE IF StartsAt(h, 1, EntGt) THEN <<">">> \o html_entity_decode(From(h, 5))
    ELSE IF StartsAt(h, 1, EntLt) THEN <<"<">> \o html_entity_decode(From(h, 5))
    ELSE IF StartsAt(h, 1, EntAmp) THEN <<"&">> \o html_entity_decode(From(h, 6))
    ELSE <<h[1]>> \o html_entity_decode(Tail(h))

\* Utils.text2html
RECURSIVE text2html(_)
text2html(t) ==
    IF t = <<>> THEN <<>>
    ELSE (CASE t[1] = "&" -> EntAmp
            [] t[1] = "<" -> EntLt
            [] t[1] = ">" -> EntGt
            [] OTHER -> <<t[1]>>) \o text2html(Tail(t))

\* html = Utils.html_entity_decode(html): the last line of digestHTML.
DecodeEntities(r) == [html |-> html_entity_decode(r.html), chaos |-> r.chaos]

\* digestHTML on the instance c: the text returned and the instance afterwards.
digestHTML(html, c) ==
    DecodeEntities(
        ReplaceProxies("escape",
            ReplaceProxies("tag",
                ReplaceProxies("comment", [html |-> html, chaos |-> c]))))

\* The replacement string of String.prototype.replace, expanded: $$ is $,
\* $& the match, $` what precedes it, $' what follows it.
RECURSIVE Expand(_, _, _, _)
Expand(repl, matched, before, after) ==
    IF repl = <<>> THEN <<>>
    ELSE IF repl[1] = "$" /\ Len(repl) >= 2 /\ repl[2] \in {"$", "&", "`", "'"} THEN
        (CASE repl[2] = "$" -> <<"$">>
           [] repl[2] = "&" -> matched
           [] repl[2] = "`" -> before
           [] repl[2] = "'" -> after) \o Expand(From(repl, 3), matched, before, after)
    ELSE <<repl[1]>> \o Expand(Tail(repl), matched, before, after)

\* s.replace(pat, repl) for two strings: the first occurrence only.
StringReplace(s, pat, repl) ==
    LET k == IndexOfFrom(s, pat, 1)
    IN  IF k = 0 THEN s
        ELSE SubSeq(s, 1, k - 1)
             \o Expand(repl, pat, SubSeq(s, 1, k - 1), From(s, k + Len(pat)))
             \o From(s, k + Len(pat))

\* The for-in loop of getHTML over the entries from the k-th on.
RECURSIVE Recover(_, _, _)
Recover(r, storage, k) ==
    IF k > Len(storage) THEN r
    ELSE Recover(StringReplace(r, storage[k].mark, storage[k].reality), storage, k + 1)

getHTML(txt, storage) == Recover(text2html(txt), storage, 1)

\* this.text.replace(pattern, function) for a pattern /literal/g, from
\* position i on: every match is replaced by digestHTML(replacementHTML).
RECURSIVE replaceFrom(_, _, _, _, _)

\* The match at position i is replaced by r.html, r being what
\* digestHTML(replacementHTML) returned.
replaceMatch(pattern, replacementHTML, i, r, acc) ==
    replaceFrom(pattern, replacementHTML, i + Len(pattern), r.chaos, acc \o r.html)

replaceFrom(pattern, replacementHTML, i, c, acc) ==
    IF i > Len(c.text) THEN [text |-> acc, chaos |-> c]
    ELSE IF StartsAt(c.text, i, pattern)
    THEN replaceMatch(pattern, replacementHTML, i, digestHTML(replacementHTML, c), acc)
    ELSE replaceFrom(pattern, replacementHTML, i + 1, c, Append(acc, c.text[i]))

\* ---- What the host hands in.

MaxAtoms == 2           \* pieces of the markup first given to setHTML
MaxMarkCount == 3       \* no further replace or digestHTML from this markCount on

\* The pieces: a letter, a tag, a comment holding a $, a tag with an attribute
\* holding $$, a backslash, the markup of the text "<b>", and text that looks
\* like the mark of count 2.
Atoms ==
    {<<"a">>,
     <<"<", "b", ">">>,
     <<"<", "!", "-", "-", "$", "-", "-", ">">>,
     <<"<", "a", " ", "$", "$", ">">>,
     <<"\\">>,
     EntLt \o <<"b">> \o EntGt,
     MarkOf(2)}

RECURSIVE Concat(_)
Concat(ss) == IF ss = <<>> THEN <<>> ELSE ss[1] \o Concat(Tail(ss))

\* The markup a new instance is loaded with, and the markup a later setHTML
\* on the same instance brings.
HtmlInputs == {Concat(ss) : ss \in SeqsUpTo(Atoms, MaxAtoms)}
ReloadInputs == Atoms \cup {<<>>}

Patterns == {<<"a">>, <<"b">>}
Replacements == {<<"<", "i", ">", "a", "<", "/", "i", ">">>, <<"\\", "a">>}

\* s holds /￼￹\w+￻/.
HasMarkLike(s) ==
    \E k \in 1..Len(s) :
        /\ StartsAt(s, k, markPrefix)
        /\ SkipWhile(s, k + 2, Word) > k + 2
        /\ StartsAt(s, SkipWhile(s, k + 2, Word), markSuffix)

\* setHTML(html)
SetHTML(html) ==
    /\ lastCall.fn = "none" \/ html \in ReloadInputs
    /\ \E r \in {digestHTML(html, Chaos(text, <<>>, 0, <<>>))} :
           /\ text' = r.html
           /\ proxyStorage' = r.chaos.proxyStorage
           /\ markCount' = r.chaos.markCount
           /\ lastCall' = [fn |-> "setHTML", arg |-> html, ret |-> <<>>,
                           marks |-> r.chaos.marks]
    /\ src' = html
    /\ pristine' = TRUE
    /\ UNCHANGED <<evars, avars>>

\* getHTML()
GetHTML ==
    /\ lastCall' = [fn |-> "getHTML", arg |-> <<>>,
                    ret |-> getHTML(text, proxyStorage), marks |-> <<>>]
    /\ UNCHANGED <<text, proxyStorage, markCount, src, pristine, evars, avars>>

\* digestHTML(this.text), called from outside.
DigestText ==
    /\ markCount < MaxMarkCount
    /\ \E r \in {digestHTML(text, Chaos(text, proxyStorage, markCount, <<>>))} :
           /\ proxyStorage' = r.chaos.proxyStorage
           /\ markCount' = r.chaos.markCount
           /\ lastCall' = [fn |-> "digestHTML", arg |-> text, ret |-> r.html,
                           marks |-> r.chaos.marks]
    /\ UNCHANGED <<text, src, pristine, evars, avars>>

\* replace(pattern, replacementHTML)
Replace(pattern, replacementHTML) ==
    /\ markCount < MaxMarkCount
    /\ \E r \in {replaceFrom(pattern, replacementHTML, 1,
                             Chaos(text, proxyStorage, markCount, <<>>), <<>>)} :
           /\ text' = r.text
           /\ proxyStorage' = r.chaos.proxyStorage
           /\ markCount' = r.chaos.markCount
           /\ lastCall' = [fn |-> "replace", arg |-> pattern, ret |-> <<>>,
                           marks |-> r.chaos.marks]
    /\ pristine' = FALSE
    /\ UNCHANGED <<src, evars, avars>>

NextChaos ==
    \/ \E html \in HtmlInputs : SetHTML(html)
    \/ GetHTML
    \/ DigestText
    \/ \E pattern \in Patterns, replacementHTML \in Replacements :
          Replace(pattern, replacementHTML)

SpecChaos == Init /\ [][NextChaos]_vars

(***************************************************************************)
(* PART C.  DomChaos.applyTo                                               *)
(***************************************************************************)

\* Bounds on the children lists.
MaxLive == 3
MaxScratch == 3

\* What isEqualNode compares; two nodes are structurally equal iff their
\* shapes are equal.
Shapes == {"A", "B"}

\* live nodes carry ids 1..MaxLive, scratch nodes ids 101, 102, ...
LiveLists ==
    {[k \in 1..Len(sh) |-> [id |-> k, shape |-> sh[k]]] : sh \in SeqsUpTo(Shapes, MaxLive)}
ScratchLists ==
    {[k \in 1..Len(sh) |-> [id |-> 100 + k, shape |-> sh[k]]] : sh \in SeqsUpTo(Shapes, MaxScratch)}

isEqualNode(a, b) == a.shape = b.shape

\* The inner for loop: the first index si1 >= from (0-based) whose shadow child
\* isEqualNode(tnode); -1 when the loop runs out.
RECURSIVE FirstEqual(_, _, _)
FirstEqual(sh, from, tnode) ==
    IF from >= Len(sh) THEN -1
    ELSE IF isEqualNode(sh[from + 1], tnode) THEN from
    ELSE FirstEqual(sh, from + 1, tnode)

\* ScanFrom with let si1 = 0 in place of let si1 = si.
ScanFromZero(sh, from, tnode) == FirstEqual(sh, 0, tnode)

\* The scan one outer iteration runs: for (let si1 = si; ...).
ScanFrom(sh, from, tnode) == FirstEqual(sh, from, tnode)

\* FlushChildren without target.innerHTML = "".
FlushNoClear(tg, sh) == tg \o sh

\* The children of target after innerHTML = "" and the appendChild loop.
FlushChildren(tg, sh) == sh

\* applyTo is called: shadow is built, ti = si = 0.
ApplyStart(live, scratch) ==
    /\ pc \in {"idle", "done"}
    /\ target' = live
    /\ shadow' = scratch
    /\ live0' = live
    /\ scratch0' = scratch
    /\ ti' = 0
    /\ si' = 0
    /\ scanLog' = <<>>
    /\ pc' = "scan"
    /\ UNCHANGED <<evars, cvars>>

\* One iteration of the outer for loop, its inner loop included.
ScanStep ==
    /\ pc = "scan"
    /\ ti < Len(target)
    /\ LET tnode == target[ti + 1]
           si1 == ScanFrom(shadow, si, tnode)
       IN  /\ scanLog' = Append(scanLog, [node |-> tnode, si |-> si])
           /\ \/ /\ si1 >= 0
                 \* shadow.replaceChild(tnode, snode) takes tnode out of target;
                 \* match && ti-- undoes the loop's ti++
                 /\ shadow' = [shadow EXCEPT ![si1 + 1] = tnode]
                 /\ target' = RemoveAt(target, ti + 1)
                 /\ si' = si1 + 1
                 /\ ti' = ti
              \/ /\ si1 < 0
                 /\ ti' = ti + 1
                 /\ UNCHANGED <<shadow, target, si>>
    /\ UNCHANGED <<pc, live0, scratch0, evars, cvars>>

\* The loop condition fails.
ScanEnd ==
    /\ pc = "scan"
    /\ ti >= Len(target)
    /\ pc' = "flush"
    /\ UNCHANGED <<target, shadow, ti, si, live0, scratch0, scanLog, evars, cvars>>

\* target.innerHTML = ""; then every shadow child is appended to target.
Flush ==
    /\ pc = "flush"
    /\ target' = FlushChildren(target, shadow)
    /\ shadow' = <<>>
    /\ pc' = "done"
    /\ UNCHANGED <<ti, si, live0, scratch0, scanLog, evars, cvars>>

NextApply ==
    \/ \E live \in LiveLists, scratch \in ScratchLists : ApplyStart(live, scratch)
    \/ ScanStep
    \/ ScanEnd
    \/ Flush

SpecApply == Init /\ [][NextApply]_vars

(***************************************************************************)
(* Claims about BlockRenderer                                              *)
(***************************************************************************)

\* The blocks of D, those inside a wrapper included.
Leaves(D) ==
    UNION {IF D[k].tag \in WrapperTags THEN Range(D[k].kids) ELSE {D[k]} : k \in 1..Len(D)}

\* The position in D of the top-level block with this id, 0 if there is none.
PosOf(D, id) ==
    IF \E k \in 1..Len(D) : D[k].tag \notin WrapperTags /\ D[k].id = id
    THEN CHOOSE k \in 1..Len(D) : D[k].tag \notin WrapperTags /\ D[k].id = id
    ELSE 0

\* The child the last call returned, as it stands in the document.
ReturnedChild(D, r) == CHOOSE n \in Leaves(D) : n.id = r.child

\* No feature pattern of the five matches the text t.
NoPatternMatches(t) ==
    /\ MatchBLOCKQUOTE(t) < 0
    /\ MatchHeaderText(t) < 0
    /\ MatchHR(t) < 0
    /\ MatchOL(t) < 0
    /\ MatchUL(t) < 0

\* C1: an Elevate on a block whose text no feature pattern matches returns
\* null and leaves the whole document as it was.
C1_NoMatchUntouched ==
    [][\A i \in 1..Len(doc) :
         (Elevate(i) /\ NoPatternMatches(textContent(doc[i].html)))
            => (doc' = doc /\ rtn'.containerType = "null"
                /\ rtn'.parent = 0 /\ rtn'.child = 0)]_vars

\* An Elevate has returned null and the document holds a paragraph no pattern
\* matches.
C1_Witness ==
    /\ rtn.fn = "Elevate"
    /\ rtn.containerType = "null"
    /\ \E k \in 1..Len(doc) :
          doc[k].tag = "P" /\ NoPatternMatches(textContent(doc[k].html))

\* The order the claim gives.
ClaimedOrder == <<"blockquote", "header text", "hr", "ordered list", "unordered list">>

\* The first descriptor of the claimed order whose pattern matches t.
FirstMatching(t) ==
    LET ks == {k \in 1..Len(ClaimedOrder) : featureMark(ClaimedOrder[k], t) >= 0}
    IN  IF ks = {} THEN "null"
        ELSE ClaimedOrder[CHOOSE k \in ks : \A j \in ks : k <= j]

\* C2: Elevate applies the first descriptor, in the order blockquote, header
\* text, hr, ordered list, unordered list, whose pattern matches the block's
\* text, and nothing else: the returned containerType is that descriptor, the
\* document is what that descriptor's Elevate alone makes of it, and a text
\* the hr pattern matches becomes a rule, never a list item.
C2_FirstMatchWins ==
    [][\A i \in 1..Len(doc) :
         Elevate(i) =>
            LET d == FirstMatching(textContent(doc[i].html))
            IN  /\ rtn'.containerType = d
                /\ d # "null" => doc' = ContainerElevate(d, doc, i).doc
                /\ d = "hr" => (doc'[i].tag = "HR" /\ Len(doc') = Len(doc))]_vars

\* An Elevate has turned a block into a rule; the only rule text typed,
\* "- - -", matches the unordered-list pattern too.
C2_Witness ==
    /\ rtn.fn = "Elevate"
    /\ rtn.containerType = "hr"
    /\ MatchUL(<<"-", " ", "-", " ", "-">>) >= 0
    /\ \E k \in 1..Len(doc) : doc[k].tag = "HR" /\ doc[k].id = rtn.child

\* The number of top-level wrappers of D with this tag.
WrapperCount(D, tag) == Cardinality({k \in 1..Len(D) : D[k].tag = tag})

\* C3: when a wrapping descriptor elevates a block whose preceding sibling has
\* the descriptor's parent tag, the child is appended to that sibling and no
\* wrapper is created; otherwise one wrapper holding only the child takes the
\* block's place; the other nodes stay; and the children of every wrapper are
\* in document order.
C3_MergeIntoPreceding ==
    /\ [](\A k \in 1..Len(doc) :
            doc[k].tag \in WrapperTags =>
                /\ doc[k].kids # <<>>
                /\ \A a, b \in 1..Len(doc[k].kids) :
                      a < b => doc[k].kids[a].id < doc[k].kids[b].id)
    /\ [][rtn'.containerType \in WrappingContainers =>
            LET i == PosOf(doc, rtn'.child)
                tag == parentNodeName(rtn'.containerType)
                child == ReturnedChild(doc', rtn')
            IN  /\ i > 0
                /\ IF i > 1 /\ doc[i - 1].tag = tag
                   THEN /\ rtn'.parent = i - 1
                        /\ doc' = RemoveAt([doc EXCEPT ![i - 1].kids = Append(@, child)], i)
                        /\ WrapperCount(doc', tag) = WrapperCount(doc, tag)
                   ELSE /\ rtn'.parent = i
                        /\ doc' = [doc EXCEPT ![i] = Wrapper(tag, <<child>>)]
                        /\ WrapperCount(doc', tag) = WrapperCount(doc, tag) + 1]_vars

\* A descriptor's Elevate has appended a second child to the list created for
\* the first, and the document holds that one list only.
C3_Witness ==
    /\ rtn.fn = "ContainerElevate"
    /\ rtn.containerType = "unordered list"
    /\ rtn.parent = 1
    /\ Len(doc) = 1
    /\ doc[1].tag = "UL"
    /\ Len(doc[1].kids) = 2

\* C4, as stated: whenever a descriptor with removeFeatureMark elevates a
\* block, the child's text is the block's text without the matched marker.
C4_MarkerRemoved ==
    [][(rtn'.containerType # "null" /\ removeFeatureMark(rtn'.containerType)) =>
         LET i == PosOf(doc, rtn'.child)
             t == textContent(doc[i].html)
         IN  textContent(ReturnedChild(doc', rtn').html)
                = From(t, featureMark(rtn'.containerType, t) + 1)]_vars

\* C5, as stated: a header elevation puts, at the block's position, a header
\* whose level is the length of the hash run, with the block's content and no
\* parent; and no header beyond level 6 is ever created.
C5_HeaderLevel ==
    [][rtn'.containerType = "header text" =>
         LET i == PosOf(doc, rtn'.child)
             n == HashRun(textContent(doc[i].html))
         IN  /\ rtn'.parent = 0
             /\ Len(doc') = Len(doc)
             /\ \A k \in 1..Len(doc) : k # i => doc'[k] = doc[k]
             /\ doc'[i].id = doc[i].id
             /\ doc'[i].tag = "H"
             /\ doc'[i].html = prepareElevate("header text", doc[i]).html
             /\ n <= 6 => doc'[i].level = n
             /\ doc'[i].level \in 1..6]_vars

(***************************************************************************)
(* Claims about DomChaos                                                   *)
(***************************************************************************)

\* C6, as stated: after setHTML(x), for an x without mark-like text, and with
\* no replace since, getHTML() returns x.
C6_RoundTrip ==
    (lastCall.fn = "getHTML" /\ pristine /\ ~HasMarkLike(src))
        => lastCall.ret = src

\* s holds a character reference html_entity_decode decodes.
HasEntity(s) ==
    \E k \in 1..Len(s) :
        \/ StartsAt(s, k, EntNbsp)
        \/ StartsAt(s, k, EntGt)
        \/ StartsAt(s, k, EntLt)
        \/ StartsAt(s, k, EntAmp)

\* The last call was digestHTML on the text setHTML(src) left.
Redigested == lastCall.fn = "digestHTML" /\ pristine /\ lastCall.arg = text

\* C8, as stated: digesting the output of digestHTML(x) returns it unchanged
\* and stores nothing, for every x.
C8_Idempotent ==
    Redigested => (lastCall.ret = lastCall.arg /\ lastCall.marks = <<>>)

\* C8, amended: digesting the output of digestHTML(x) returns it unchanged and
\* stores nothing, for every x that holds no character reference.
C8_IdempotentWithoutEntities ==
    (Redigested /\ ~HasEntity(src))
        => (lastCall.ret = lastCall.arg /\ lastCall.marks = <<>>)

\* The output of a digestion that stored fragments has been digested again,
\* and nothing was stored.
C8_Witness ==
    /\ Redigested
    /\ ~HasEntity(src)
    /\ Len(proxyStorage) >= 2
    /\ lastCall.marks = <<>>

\* C9: every mark a call generates is, when generated, neither a substring of
\* this.text nor a key of proxyStorage, so every createProxy adds an entry and
\* leaves the older entries as they are; markCount grows by at least one per
\* mark, from 0 in setHTML and from its old value otherwise.
C9_MarkFresh ==
    [][lastCall'.fn \in {"setHTML", "digestHTML", "replace"} =>
         LET ms == lastCall'.marks
             base == IF lastCall'.fn = "setHTML" THEN <<>> ELSE proxyStorage
             count == IF lastCall'.fn = "setHTML" THEN 0 ELSE markCount
         IN  /\ \A k \in 1..Len(ms) :
                   /\ IndexOfFrom(text, ms[k], 1) = 0
                   /\ ms[k] \notin Keys(base)
                   /\ \A j \in 1..(k - 1) : ms[j] # ms[k]
             /\ Len(proxyStorage') = Len(base) + Len(ms)
             /\ \A k \in 1..Len(base) : proxyStorage'[k] = base[k]
             /\ markCount' >= count + Len(ms)]_vars

\* A replace has generated marks on a text that holds mark-like text, and
\* nextMark has skipped a candidate.
C9_Witness ==
    /\ lastCall.fn = "replace"
    /\ Len(lastCall.marks) >= 2
    /\ HasMarkLike(src)
    /\ markCount > Len(proxyStorage)

(***************************************************************************)
(* Claims about applyTo                                                    *)
(***************************************************************************)

\* Some scratch child after 0-based position `from` - 1 is structurally equal
\* to node n.
HasEqualFrom(from, n) ==
    \E k \in (from + 1)..Len(scratch0) : isEqualNode(scratch0[k], n)

IsChildOfTarget(n) == \E k \in 1..Len(target) : target[k] = n

\* C7, as stated: once applyTo is done, every live child that is structurally
\* equal to some scratch child is still a child of the target, as the same node.
C7_AsStated ==
    pc = "done" =>
        \A j \in 1..Len(live0) :
            HasEqualFrom(0, live0[j]) => IsChildOfTarget(live0[j])

\* C7, amended: once applyTo is done, every live child that was structurally
\* equal to some scratch child at or after the scan position of its visit is
\* still a child of the target, as the same node.
C7_Preserved ==
    pc = "done" =>
        /\ Len(scanLog) = Len(live0)
        /\ \A j \in 1..Len(scanLog) :
              /\ scanLog[j].node = live0[j]
              /\ HasEqualFrom(scanLog[j].si, live0[j]) => IsChildOfTarget(live0[j])

\* A run where one live child was kept and another, although structurally
\* equal to a scratch child, was visited too late and dropped.
C7_Witness ==
    /\ pc = "done"
    /\ \E j \in 1..Len(live0) : IsChildOfTarget(live0[j])
    /\ \E j \in 1..Len(live0) :
          HasEqualFrom(0, live0[j]) /\ ~IsChildOfTarget(live0[j])

\* C10: applyTo ends after one outer iteration per live child; then the target
\* has the scratch children's count and order, each position holding the
\* scratch node or a live node structurally equal to it; a live child with no
\* structurally equal scratch child at or after the scan position of its visit
\* is gone; when nothing matched the target holds the scratch children.
C10_Result ==
    /\ pc \in {"scan", "flush"} =>
          Len(scanLog) + (Len(target) - ti) = Len(live0)
    /\ pc = "done" =>
          /\ Len(scanLog) = Len(live0)
          /\ Len(target) = Len(scratch0)
          /\ \A k \in 1..Len(target) :
                \/ target[k] = scratch0[k]
                \/ /\ target[k] \in Range(live0)
                   /\ isEqualNode(target[k], scratch0[k])
          /\ \A j \in 1..Len(scanLog) :
                ~HasEqualFrom(scanLog[j].si, scanLog[j].node)
                    => ~IsChildOfTarget(scanLog[j].node)
          /\ (\A j \in 1..Len(scanLog) :
                 ~HasEqualFrom(scanLog[j].si, scanLog[j].node))
                => target = scratch0

\* A finished run that kept one live child, dropped another and took over a
\* scratch child.
C10_Witness ==
    /\ pc = "done"
    /\ \E k \in 1..Len(target) : target[k] \in Range(live0)
    /\ \E k \in 1..Len(target) : target[k] = scratch0[k]
    /\ \E j \in 1..Len(live0) : ~IsChildOfTarget(live0[j])

====
